---- MODULE Spec2Model ----
(***************************************************************************)
(* Model of the Image Link Updater plugin (src/main.js): the reference     *)
(* rewriter (updateImageLinks, updateImageLinksByFilename) and the         *)
(* unique-path generator (uniquePath).                                     *)
(*                                                                         *)
(* Text is a sequence of one-character strings.  The four regular          *)
(* expressions of the rewriter are built from the escaped variants of the  *)
(* old identity as the code builds them and are run by a backtracking      *)
(* matcher with the priorities of the JavaScript engine (greedy before     *)
(* shorter, lazy before longer, alternatives left to right, flags 'gi').   *)
(***************************************************************************)
EXTENDS Integers, Sequences, FiniteSets, TLC

(***************************************************************************)
(* Characters and strings                                                  *)
(***************************************************************************)

NL == "\n"
BSL == "\\"

\* s[i..j], empty when j < i
Slice(s, i, j) == IF j < i THEN << >> ELSE SubSeq(s, i, j)

\* the canonical form two characters are compared in under the 'i' flag
Canon(c) ==
    CASE c = "A" -> "a" [] c = "B" -> "b" [] c = "C" -> "c" [] c = "D" -> "d"
      [] c = "E" -> "e" [] c = "F" -> "f" [] c = "G" -> "g" [] c = "M" -> "m"
      [] c = "N" -> "n" [] c = "P" -> "p" [] OTHER -> c

CanonStr(s) == [k \in 1..Len(s) |-> Canon(s[k])]

(***************************************************************************)
(* Host library: obsidian.normalizePath, and the built-in encodeURI        *)
(***************************************************************************)

\* runs of '/' and '\' become one '/'
RECURSIVE CollapseSlashes(_)
CollapseSlashes(s) ==
    IF s = << >> THEN << >>
    ELSE LET c == IF Head(s) = BSL THEN "/" ELSE Head(s)
             r == CollapseSlashes(Tail(s))
         IN  IF c = "/" /\ r # << >> /\ Head(r) = "/" THEN r ELSE <<c>> \o r

StripSlashes(s) ==
    LET a == IF s # << >> /\ Head(s) = "/" THEN Tail(s) ELSE s
    IN  IF a # << >> /\ a[Len(a)] = "/" THEN Slice(a, 1, Len(a) - 1) ELSE a

normalizePath(path) ==
    LET p == StripSlashes(CollapseSlashes(path))
    IN  IF p = << >> THEN <<"/">> ELSE p

\* characters encodeURI leaves alone among those the model uses
UriSafe == {"a", "b", "d", "e", "f", "g", "i", "m", "n", "p", "q", "s", "t", "x",
            "A", "F", "M", "P", "0", "1", "2", "3", "5", "B", "C", "D", "E",
            "/", ".", "-", "_", "!", "(", ")", "#", "?", "&", "=", "+", "~", "*", "'"}

encodeChar(c) ==
    CASE c \in UriSafe -> <<c>>
      [] c = " " -> <<"%", "2", "0">>
      [] c = "%" -> <<"%", "2", "5">>
      [] c = "<" -> <<"%", "3", "C">>
      [] c = ">" -> <<"%", "3", "E">>
      [] c = "[" -> <<"%", "5", "B">>
      [] c = "]" -> <<"%", "5", "D">>
      [] c = "|" -> <<"%", "7", "C">>
      [] OTHER -> <<c>>

RECURSIVE encodeURI(_)
encodeURI(s) == IF s = << >> THEN << >> ELSE encodeChar(Head(s)) \o encodeURI(Tail(s))

(***************************************************************************)
(* Helpers of the plugin                                                   *)
(***************************************************************************)

RegexMeta == {".", "*", "+", "?", "^", "$", "{", "}", "(", ")", "|", "[", "]", BSL}

RECURSIVE escapeRegExp(_)
escapeRegExp(str) ==
    IF str = << >> THEN << >>
    ELSE (IF Head(str) \in RegexMeta THEN <<BSL, Head(str)>> ELSE <<Head(str)>>)
         \o escapeRegExp(Tail(str))

\* the helper without the prefix: the normalized path as it is
ensureLeadingSlashAsIs(path) == normalizePath(path)

ensureLeadingSlash(path) ==
    LET normalized == normalizePath(path)
    IN  IF Head(normalized) = "/" THEN normalized ELSE <<"/">> \o normalized

\* oldPath.split('/').pop()
RECURSIVE LastSegment(_)
LastSegment(path) ==
    IF \A k \in 1..Len(path) : path[k] # "/" THEN path
    ELSE LastSegment(Tail(path))

(***************************************************************************)
(* Regular expressions: a pattern is a sequence of nodes                   *)
(*   lit L    the characters L, each a character or AnyChar ('.')          *)
(*   opt c    c?       greedy                                              *)
(*   star N   [^N]*    greedy                                              *)
(*   lazy N   [^N]*?   lazy; .*? is lazy {NL}                              *)
(*   cap      the end of capture group 1                                   *)
(*   alt A    (?:A1|A2|...) tried left to right                            *)
(***************************************************************************)

AnyChar == "ANY"

Lit(l) == [t |-> "lit", l |-> CanonStr(l)]
Opt(c) == [t |-> "opt", c |-> c]
Star(neg) == [t |-> "star", neg |-> neg]
Lazy(neg) == [t |-> "lazy", neg |-> neg]
CapEnd == [t |-> "cap"]
Alt(alts) == [t |-> "alt", alts |-> alts]

\* the characters of a pattern source made of escaped literals: \c is the
\* character c, an unescaped '.' is any character but a line terminator
RECURSIVE Compile(_)
Compile(src) ==
    IF src = << >> THEN << >>
    ELSE IF Head(src) = BSL /\ Len(src) >= 2
         THEN <<src[2]>> \o Compile(Tail(Tail(src)))
         ELSE IF Head(src) = "." THEN <<AnyChar>> \o Compile(Tail(src))
              ELSE <<Head(src)>> \o Compile(Tail(src))

\* the literal l is at position i of s (both in canonical form)
LitAt(l, s, i) ==
    /\ i + Len(l) - 1 <= Len(s)
    /\ \A k \in 1..Len(l) : s[i + k - 1] = l[k] \/ (l[k] = AnyChar /\ s[i + k - 1] # NL)

NoMatch == << >>

\* the position after the longest run of characters outside neg that starts at i
RunEnd(s, i, neg) ==
    LET stops == {j \in i..Len(s) : s[j] \in neg}
    IN  IF stops = {} THEN Len(s) + 1 ELSE CHOOSE j \in stops : \A k \in stops : j <= k

\* a necessary condition for nodes to match at position i: what its first
\* nodes need to see there (used to skip positions, never to accept one)
RECURSIVE MayStart(_, _, _)
MayStart(nodes, s, i) ==
    IF nodes = << >> THEN TRUE
    ELSE LET n == Head(nodes)
         IN  CASE n.t = "lit" -> LitAt(n.l, s, i)
               [] n.t = "opt" -> (i <= Len(s) /\ s[i] = n.c)
                                 \/ MayStart(Tail(nodes), s, i)
               [] n.t = "cap" -> MayStart(Tail(nodes), s, i)
               [] n.t = "alt" -> \E k \in 1..Len(n.alts) : MayStart(n.alts[k], s, i)
               [] OTHER -> TRUE

\* Match(nodes, s, i): the pattern matched at position i of s, as
\* <<position after the match, position after capture group 1>>, or NoMatch;
\* s is the text in canonical form (flag 'i')
RECURSIVE Match(_, _, _)
RECURSIVE MatchAlt(_, _, _, _, _)
RECURSIVE MatchUp(_, _, _, _)
RECURSIVE MatchDown(_, _, _, _)

MatchAlt(alts, k, rest, s, i) ==
    IF k > Len(alts) THEN NoMatch
    ELSE LET r == Match(alts[k] \o rest, s, i)
         IN  IF r # NoMatch THEN r ELSE MatchAlt(alts, k + 1, rest, s, i)

\* the rest matched at the first position of lo..hi where it matches
MatchUp(rest, s, lo, hi) ==
    LET c == {j \in lo..hi : MayStart(rest, s, j)}
    IN  IF c = {} THEN NoMatch
        ELSE LET j == CHOOSE j \in c : \A k \in c : j <= k
                 r == Match(rest, s, j)
             IN  IF r # NoMatch THEN r ELSE MatchUp(rest, s, j + 1, hi)

\* the rest matched at the last position of lo..hi where it matches
MatchDown(rest, s, lo, hi) ==
    LET c == {j \in lo..hi : MayStart(rest, s, j)}
    IN  IF c = {} THEN NoMatch
        ELSE LET j == CHOOSE j \in c : \A k \in c : k <= j
                 r == Match(rest, s, j)
             IN  IF r # NoMatch THEN r ELSE MatchDown(rest, s, lo, j - 1)

Match(nodes, s, i) ==
    IF nodes = << >> THEN <<i, 0>>
    ELSE
      LET n == Head(nodes)
          rest == Tail(nodes)
      IN  CASE n.t = "lit" ->
                 IF LitAt(n.l, s, i) THEN Match(rest, s, i + Len(n.l)) ELSE NoMatch
            [] n.t = "opt" ->
                 LET r == IF i <= Len(s) /\ s[i] = n.c
                          THEN Match(rest, s, i + 1) ELSE NoMatch
                 IN  IF r # NoMatch THEN r ELSE Match(rest, s, i)
            [] n.t = "star" -> MatchDown(rest, s, i, RunEnd(s, i, n.neg))
            [] n.t = "lazy" -> MatchUp(rest, s, i, RunEnd(s, i, n.neg))
            [] n.t = "cap" ->
                 LET r == Match(rest, s, i)
                 IN  IF r = NoMatch THEN NoMatch ELSE <<r[1], i>>
            [] n.t = "alt" -> MatchAlt(n.alts, 1, rest, s, i)

(***************************************************************************)
(* The four patterns (src/main.js 419-424, 449-450)                        *)
(***************************************************************************)

\* !\[(.*?)\]\(<?(?:/P|/Penc|P|Penc)>?\)
mdFull(escPath, escPathEnc) ==
    <<Lit(<<"!", "[">>), Lazy({NL}), CapEnd, Lit(<<"]", "(">>), Opt("<"),
      Alt(<< <<Lit(<<"/">> \o Compile(escPath))>>, <<Lit(<<"/">> \o Compile(escPathEnc))>>,
             <<Lit(Compile(escPath))>>, <<Lit(Compile(escPathEnc))>> >>),
      Opt(">"), Lit(<<")">>)>>

\* the by-name pattern without the encoded alternative
mdByNameRawOnly(escName, escNameEnc) ==
    <<Lit(<<"!", "[">>), Lazy({NL}), CapEnd, Lit(<<"]", "(">>), Opt("<"), Star({")"}),
      Lit(Compile(escName)), Star({")"}), Opt(">"), Lit(<<")">>)>>

\* !\[(.*?)\]\(<?[^)]*(?:N|Nenc)[^)]*>?\)
mdByName(escName, escNameEnc) ==
    <<Lit(<<"!", "[">>), Lazy({NL}), CapEnd, Lit(<<"]", "(">>), Opt("<"), Star({")"}),
      Alt(<< <<Lit(Compile(escName))>>, <<Lit(Compile(escNameEnc))>> >>),
      Star({")"}), Opt(">"), Lit(<<")">>)>>

\* !\[\[(?:[^\]]*?)P\]\]
wikiFull(escPath) ==
    <<Lit(<<"!", "[", "[">>), Lazy({"]"}), Lit(Compile(escPath) \o <<"]", "]">>)>>

\* the by-name pattern for a target that is the name and nothing else
wikiByNameExact(escName) ==
    <<Lit(<<"!", "[", "[">>), Lit(Compile(escName) \o <<"]", "]">>)>>

\* !\[\[[^\]]*N\]\]
wikiByName(escName) ==
    <<Lit(<<"!", "[", "[">>), Star({"]"}), Lit(Compile(escName) \o <<"]", "]">>)>>

(***************************************************************************)
(* String.prototype.replace with a global pattern and a callback           *)
(***************************************************************************)

\* the replacement callbacks
mdReplacement(alt, absMd) == <<"!", "[">> \o alt \o <<"]", "(">> \o absMd \o <<")">>
\* the wiki callback writing the percent-encoded path, as the Markdown one does
wikiReplacementEncoded(abs) == <<"!", "[", "[">> \o encodeURI(abs) \o <<"]", "]">>
wikiReplacement(abs) == <<"!", "[", "[">> \o abs \o <<"]", "]">>

\* kind "md": (_m, alt) => `![${alt}](${target})`; kind "wiki": () => `![[${target}]]`
\* the matches are taken left to right, each search starting where the last
\* match ended; the result is the new text and how often the callback ran
RECURSIVE ReplaceFrom(_, _, _, _, _, _)
ReplaceFrom(nodes, kind, target, s, sc, from) ==
    LET c == {j \in from..Len(s) : MayStart(nodes, sc, j)}
    IN  IF c = {} THEN [text |-> Slice(s, from, Len(s)), n |-> 0]
        ELSE LET i == CHOOSE j \in c : \A k \in c : j <= k
                 r == Match(nodes, sc, i)
             IN  IF r = NoMatch
                 THEN LET z == ReplaceFrom(nodes, kind, target, s, sc, i + 1)
                      IN  [text |-> Slice(s, from, i) \o z.text, n |-> z.n]
                 ELSE LET z == ReplaceFrom(nodes, kind, target, s, sc, r[1])
                          out == IF kind = "md"
                                 THEN mdReplacement(Slice(s, i + 2, r[2] - 1), target)
                                 ELSE wikiReplacement(target)
                      IN  [text |-> Slice(s, from, i - 1) \o out \o z.text, n |-> z.n + 1]

ReplaceAll(nodes, kind, target, s) == ReplaceFrom(nodes, kind, target, s, CanonStr(s), 1)

(***************************************************************************)
(* The rewrite of one document's text                                      *)
(***************************************************************************)

\* updateImageLinks, lines 405-416 and 428-433: the text after the four
\* replacements, whether any callback ran, the text after the two Markdown
\* rules, and how often each rule's callback ran
RewriteFull(content, oldPath, newPath) ==
    LET oldFileName == LastSegment(oldPath)
        oldPathNorm == normalizePath(oldPath)
        oldPathEnc == encodeURI(oldPathNorm)
        oldNameEnc == encodeURI(oldFileName)
        escapedOldPath == escapeRegExp(oldPathNorm)
        escapedOldPathEnc == escapeRegExp(oldPathEnc)
        escapedOldName == escapeRegExp(oldFileName)
        escapedOldNameEnc == escapeRegExp(oldNameEnc)
        abs == ensureLeadingSlash(newPath)
        absMd == encodeURI(abs)
        r1 == ReplaceAll(mdFull(escapedOldPath, escapedOldPathEnc), "md", absMd, content)
        r2 == ReplaceAll(mdByName(escapedOldName, escapedOldNameEnc), "md", absMd, r1.text)
        r3 == ReplaceAll(wikiFull(escapedOldPath), "wiki", abs, r2.text)
        r4 == ReplaceAll(wikiByName(escapedOldName), "wiki", abs, r3.text)
    IN  [updated |-> r4.text,
         changed |-> r1.n + r2.n + r3.n + r4.n > 0,
         afterMd |-> r2.text,
         fired |-> <<r1.n, r2.n, r3.n, r4.n>>]

\* updateImageLinksByFilename, lines 443-450 and 454-456
RewriteByName(content, fileName, newPath) ==
    LET nameEnc == encodeURI(fileName)
        nameEsc == escapeRegExp(fileName)
        nameEscEnc == escapeRegExp(nameEnc)
        abs == ensureLeadingSlash(newPath)
        absMd == encodeURI(abs)
        r1 == ReplaceAll(mdByName(nameEsc, nameEscEnc), "md", absMd, content)
        r2 == ReplaceAll(wikiByName(nameEsc), "wiki", abs, r1.text)
    IN  [updated |-> r2.text,
         changed |-> r1.n + r2.n > 0,
         afterMd |-> r1.text,
         fired |-> <<0, r1.n, 0, r2.n>>]

\* changed told from the texts instead of from the callbacks
RewriteChangedIfDiffers(kind, content, old, new) ==
    LET r == IF kind = "full" THEN RewriteFull(content, old, new)
             ELSE RewriteByName(content, old, new)
    IN  [r EXCEPT !.changed = r.updated # content]

\* the rewrite a pass of the given kind applies to one document
Rewrite(kind, content, old, new) ==
    IF kind = "full" THEN RewriteFull(content, old, new)
    ELSE RewriteByName(content, old, new)

\* file.extension: the text after the last '.' of the file name
RECURSIVE AfterLastDot(_)
AfterLastDot(name) ==
    IF \A k \in 1..Len(name) : name[k] # "." THEN name ELSE AfterLastDot(Tail(name))

Extension(path) ==
    LET name == LastSegment(path)
    IN  IF \A k \in 1..Len(name) : name[k] # "." THEN << >> ELSE AfterLastDot(name)

ImageExtensions ==
    { <<"p", "n", "g">>, <<"j", "p", "g">>, <<"j", "p", "e", "g">>, <<"g", "i", "f">>,
      <<"b", "m", "p">>, <<"s", "v", "g">>, <<"w", "e", "b", "p">> }

\* every file taken for an image
isImageAlways(path) == TRUE

isImage(path) == CanonStr(Extension(path)) \in ImageExtensions

(***************************************************************************)
(* The vault: files and documents the model draws its inputs from          *)
(***************************************************************************)

\* the moved image, its old path and its name (a name with a space in it)
OldDir == <<"a">>
Name == <<"m", " ", "f", ".", "p", "n", "g">>
OldPath == OldDir \o <<"/">> \o Name
\* where a rename or a create event may say the file is now
MovedPath == <<"d", "/">> \o Name
RenamedPath == <<"e", "/", "n", ".", "p", "n", "g">>
NotImagePath == <<"d", "/", "n", ".", "m", "d">>
\* where a rename event may say the image now is, and a create event
RenamePaths == {MovedPath, OldPath, RenamedPath, NotImagePath}
CreatePaths == {MovedPath, NotImagePath}

Md(alt, target) == <<"!", "[">> \o alt \o <<"]", "(">> \o target \o <<")">>
Wiki(inner) == <<"!", "[", "[">> \o inner \o <<"]", "]">>

OtherFile == <<"q", ".", "p", "n", "g">>
SizeSuffix == <<"|", "2">>
PlainAlt == <<"x">>

\* references as documents hold them: by path, by path in angle brackets
\* with a leading './', by name raw and percent-encoded, to a file of the
\* same name elsewhere, to another file, with an alt text that embeds the
\* image; wiki references by path, by name, with a size, to a file whose
\* name ends with the name
MdFragments ==
    { Md(PlainAlt, OldPath), Md(PlainAlt, <<"<", ".", "/">> \o OldPath \o <<">">>),
      Md(PlainAlt, Name), Md(PlainAlt, encodeURI(Name)),
      Md(PlainAlt, <<"b", "/">> \o Name), Md(PlainAlt, OtherFile),
      Md(Wiki(Name), OldPath) }

WikiFragments ==
    { Wiki(OldPath), Wiki(Name), Wiki(OldPath \o SizeSuffix),
      Wiki(<<"(", "b", ")">> \o Name) }

\* text around references: a word, a closing parenthesis, an unclosed
\* Markdown image opener
TextFragments == { <<"t">>, <<")">>, <<"!", "[", "x", "]", "(">> }

Fragments == MdFragments \cup WikiFragments \cup TextFragments

\* the fragments of the documents of a vault of two documents
VaultFragments ==
    { Md(PlainAlt, OldPath), Md(PlainAlt, encodeURI(OldPath)), Md(PlainAlt, Name),
      Md(PlainAlt, encodeURI(Name)), Md(PlainAlt, OtherFile), Wiki(OldPath),
      Wiki(OldPath \o SizeSuffix), <<"t">> }

MaxFrags == 3

\* the text made of the fragments fs[i..j]
RECURSIVE Join(_, _, _)
Join(fs, i, j) == IF j < i THEN << >> ELSE fs[i] \o Join(fs, i + 1, j)

\* the vaults of one document of at most MaxFrags fragments
OneDocVaults ==
    UNION { { <<Join(fs, 1, n)>> : fs \in [1..n -> Fragments] } : n \in 0..MaxFrags }

\* the vaults of two documents of at most MaxFrags fragments in all
TwoDocVaults ==
    UNION { { <<Join(fs, 1, k), Join(fs, k + 1, n)>> :
                k \in 0..n, fs \in [1..n -> VaultFragments] } : n \in 0..MaxFrags }

\* the names of two other files: one that is a part of the moved file's
\* name, and one that the moved file's name is a part of
SubName == <<"f", ".", "p", "n", "g">>
SuperName == <<"x">> \o Name

\* references to these files, by name and by path, and a word
NameFragments ==
    { Md(PlainAlt, SubName), Wiki(SubName), Md(PlainAlt, <<"b", "/">> \o SubName),
      Md(PlainAlt, SuperName), Md(PlainAlt, encodeURI(SuperName)), Wiki(SuperName),
      Wiki(<<"b", "/">> \o SuperName), <<"t">> }

\* the vaults of one document that refers to these files
NameVaults ==
    UNION { { <<Join(fs, 1, n)>> : fs \in [1..n -> NameFragments] } : n \in 0..MaxFrags }

(***************************************************************************)
(* uniquePath (src/main.js 472-483) and what its callers pass it           *)
(***************************************************************************)

DigitChars == <<"0", "1", "2", "3", "4", "5", "6", "7", "8", "9">>

\* the counter written one too low: the first candidate is 'base 0.ext'
NumberToStringFromZero(n) == <<DigitChars[n]>>

\* `${attempt}`: the decimal digits of a number
RECURSIVE NumberToString(_)
NumberToString(n) ==
    IF n < 10 THEN <<DigitChars[n + 1]>>
    ELSE NumberToString(n \div 10) \o <<DigitChars[(n % 10) + 1]>>

\* fileName.lastIndexOf('.'), 0 when there is none
LastDot(fileName) ==
    LET dots == {k \in 1..Len(fileName) : fileName[k] = "."}
    IN  IF dots = {} THEN 0 ELSE CHOOSE k \in dots : \A j \in dots : j <= k

getFileNameAndExtension(fileName) ==
    LET lastDotIndex == LastDot(fileName)
    IN  IF lastDotIndex = 0 THEN [name |-> fileName, extension |-> << >>]
        ELSE [name |-> Slice(fileName, 1, lastDotIndex - 1),
              extension |-> Slice(fileName, lastDotIndex + 1, Len(fileName))]

\* the candidate built without the counter moving on: always 'base 1.ext'
UniqueCandidateSameCounter(base, ext, folder, attempt) ==
    LET suffix == IF ext # << >> THEN <<".">> \o ext ELSE << >>
        folderPrefix == IF folder # << >> THEN folder \o <<"/">> ELSE << >>
    IN  normalizePath(folderPrefix \o base \o <<" ", "1">> \o suffix)

\* candidate = normalizePath(`${folderPrefix}${base} ${attempt}${suffix}`)
UniqueCandidate(base, ext, folder, attempt) ==
    LET suffix == IF ext # << >> THEN <<".">> \o ext ELSE << >>
        folderPrefix == IF folder # << >> THEN folder \o <<"/">> ELSE << >>
    IN  normalizePath(folderPrefix \o base \o <<" ">> \o NumberToString(attempt) \o suffix)

\* the highest counter of a path that may exist in the vault
MaxAttempt == 2

\* a call as its callers make it: the target folder ('' is the vault root,
\* '/' the root as the paste handler names it) and the file's name
UniqueCalls ==
    { <<<< >>, <<"m", ".", "p", "n", "g">>>>, <<<<"/">>, <<"m", ".", "p", "n", "g">>>>,
      <<<<"d">>, <<"m", ".", "p", "n", "g">>>>, <<<< >>, <<"n">>>> }

\* dest as the callers compute it
DestOf(folder, fileName) ==
    IF folder = << >> THEN fileName ELSE normalizePath(folder \o <<"/">> \o fileName)

\* the paths a call may probe
UniquePaths ==
    UNION { {DestOf(c[1], c[2])} \cup
            { UniqueCandidate(getFileNameAndExtension(c[2]).name,
                              getFileNameAndExtension(c[2]).extension, c[1], k) :
                k \in 1..MaxAttempt } : c \in UniqueCalls }

NoCall == [pc |-> "idle", base |-> << >>, ext |-> << >>, folder |-> << >>,
           candidate |-> << >>, attempt |-> 0, probes |-> << >>, result |-> << >>]

\* the loop after `await exists(candidate)` has answered: another candidate
\* and another probe, or the return of the candidate
LoopStepNoProbe(u, exists) ==
    LET v == [u EXCEPT !.probes = Append(u.probes, [path |-> u.candidate, answer |-> exists])]
    IN  IF exists
        THEN [v EXCEPT !.pc = "done", !.attempt = u.attempt + 1,
                       !.result = UniqueCandidate(u.base, u.ext, u.folder, u.attempt)]
        ELSE [v EXCEPT !.pc = "done", !.result = u.candidate]

LoopStep(u, exists) ==
    LET v == [u EXCEPT !.probes = Append(u.probes, [path |-> u.candidate, answer |-> exists])]
    IN  IF exists
        THEN [v EXCEPT !.candidate = UniqueCandidate(u.base, u.ext, u.folder, u.attempt),
                       !.attempt = u.attempt + 1]
        ELSE [v EXCEPT !.pc = "done", !.result = u.candidate]

\* uniquePath(dest, base, ext, folder) as its callers in the paste routines
\* call it: let attempt = 1; let candidate = dest
UniqueCallOf(folder, fileName) ==
    [NoCall EXCEPT !.pc = "probe", !.base = getFileNameAndExtension(fileName).name,
                   !.ext = getFileNameAndExtension(fileName).extension,
                   !.folder = folder, !.candidate = DestOf(folder, fileName),
                   !.attempt = 1]

\* the call run to its return while exist is what exists
RECURSIVE RunUniquePath(_, _)
RunUniquePath(u, exist) ==
    IF u.pc = "done" THEN u.result
    ELSE RunUniquePath(LoopStep(u, u.candidate \in exist), exist)

(***************************************************************************)
(* Cut and paste: the files of the vault and what the user selects         *)
(***************************************************************************)

\* the files (TFile) of the vault, and a folder (TFolder) of the explorer
FileIds == {"F", "G", "H", "K"}
FolderEntry == "dir"

\* file.path of each file when the plugin is loaded: two images and a note
\* in folder 'a', and an image named as the first one in folder 'd'
FilesAtLoad ==
    [f \in FileIds |->
        CASE f = "F" -> OldPath
          [] f = "G" -> OldDir \o <<"/">> \o OtherFile
          [] f = "H" -> OldDir \o <<"/", "n", ".", "m", "d">>
          [] OTHER -> MovedPath]

\* the entries a selection of the file explorer is made of, in the order
\* the explorer shows them
Entries == <<"F", "H", FolderEntry, "G">>

\* the longest selection
MaxHeld == 3

\* a selection: some of the entries, in the explorer's order
Selections ==
    { SelectSeq(Entries, LAMBDA e : e \in chosen) :
        chosen \in { c \in SUBSET {Entries[k] : k \in 1..Len(Entries)} :
                        Cardinality(c) \in 1..MaxHeld } }

\* f instanceof obsidian.TFile
IsFile(e) == e \in FileIds

\* the selection taken as it is
SelectedFilesUnfiltered(files) == files

\* files.filter((f) => f instanceof obsidian.TFile)
SelectedFiles(files) == SelectSeq(files, IsFile)

\* what a cut may leave in this.cutFiles
HeldLists == { SelectedFiles(sel) : sel \in Selections } \ { << >> }

\* the folders a paste goes to: targetFolder.path of the two folders and of
\* the vault's root folder, and '' for pasteToRoot
PasteFolders == { <<"a">>, <<"d">>, <<"/">>, << >> }

\* the cut actions and the paste invocations a run is followed through
MaxCuts == 2
MaxPastes == 2

\* the vaults the paste routines run in
PasteVaults ==
    { << Md(PlainAlt, OldPath) \o Wiki(OldDir \o <<"/">> \o OtherFile) >> }

NoPaste == [pc |-> "idle", list |-> << >>, i |-> 0, folder |-> << >>,
            successCount |-> 0, failCount |-> 0]

\* an entry of calls: what was asked (cut, paste, move, rewrite, returned,
\* notice), of which file, with what (the selection, the folder, the new
\* path), the count or the position in the loop, and how it ended
Call(op, file, to, n, ok) == [op |-> op, file |-> file, to |-> to, n |-> n, ok |-> ok]

(***************************************************************************)
(* State                                                                   *)
(***************************************************************************)

VARIABLES
    docs,     \* the text of each Markdown document of the vault
    pass,     \* the running call of updateImageLinks / updateImageLinksByFilename
    log,      \* per document the pass has read: what it read and computed
    npass,    \* the passes started so far
    fs,       \* the paths vault.adapter.exists answers true for
    up,       \* the running call of uniquePath
    loaded,   \* the plugin's event handlers and menu items are registered
    cutFiles, \* this.cutFiles: the files that were cut
    paste,    \* the running call of pasteFiles / pasteToRoot
    again,    \* a call of pasteFiles / pasteToRoot invoked while paste runs
    where,    \* file.path of each file of the vault
    bg,       \* the passes the rename handler started and nobody awaits
    calls     \* what the cut and paste routines asked of the host, in order

rvars == <<docs, pass, log, npass>>
uvars == <<fs, up>>
pvars == <<loaded, cutFiles, paste, again, where, bg, calls>>
vars == <<docs, pass, log, npass, fs, up, loaded, cutFiles, paste, again, where, bg, calls>>

MaxPasses == 2

\* nothing cut, no paste running, the plugin loaded
NothingCut ==
    /\ loaded = TRUE
    /\ cutFiles = << >>
    /\ paste = NoPaste
    /\ again = NoPaste
    /\ where = FilesAtLoad
    /\ bg = << >>
    /\ calls = << >>

NoPass == [kind |-> "none", old |-> << >>, new |-> << >>, idx |-> 0,
           phase |-> "idle", content |-> << >>, updated |-> << >>]

Init ==
    /\ docs \in OneDocVaults
    /\ pass = NoPass
    /\ log = << >>
    /\ npass = 0
    /\ fs = {}
    /\ up = NoCall
    /\ NothingCut

\* for (const md of mdFiles): the next document, or the end of the loop
Advance(p) ==
    IF p.idx + 1 > Len(docs)
    THEN [p EXCEPT !.phase = "done", !.content = << >>, !.updated = << >>]
    ELSE [p EXCEPT !.idx = p.idx + 1, !.phase = "read", !.content = << >>, !.updated = << >>]

StartPass(kind, old, new) ==
    /\ pass.phase \in {"idle", "done", "failed"}
    /\ npass < MaxPasses
    /\ npass' = npass + 1
    /\ log' = << >>
    /\ pass' = [kind |-> kind, old |-> old, new |-> new, idx |-> 1,
                phase |-> IF Len(docs) = 0 THEN "done" ELSE "read",
                content |-> << >>, updated |-> << >>]
    /\ UNCHANGED <<docs, uvars, pvars>>

\* vault.on('rename'): an image file now at newPath was at oldPath
OnRename ==
    \E newPath \in RenamePaths :
        /\ loaded
        /\ isImage(newPath)
        /\ StartPass("full", OldPath, newPath)

\* vault.on('create'): an image file appeared at path
OnCreate ==
    \E path \in CreatePaths :
        /\ loaded
        /\ isImage(path)
        /\ StartPass("byName", LastSegment(path), path)

\* if (changed): the document is to be written, else the loop goes on; r is
\* what the replacements made of the content read
Replaced(content, r) ==
    /\ log' = Append(log, [doc |-> pass.idx, content |-> content,
                           updated |-> r.updated, changed |-> r.changed,
                           fired |-> r.fired])
    /\ pass' = IF r.changed
               THEN [pass EXCEPT !.phase = "write", !.content = content,
                                 !.updated = r.updated]
               ELSE Advance(pass)

\* const content = await vault.read(md), the replacements, and if (changed)
ReadDoc ==
    /\ pass.phase = "read"
    /\ Replaced(docs[pass.idx], Rewrite(pass.kind, docs[pass.idx], pass.old, pass.new))
    /\ UNCHANGED <<docs, npass, uvars, pvars>>

\* await vault.modify(md, updated)
WriteDoc ==
    /\ pass.phase = "write"
    /\ docs' = [docs EXCEPT ![pass.idx] = pass.updated]
    /\ pass' = Advance(pass)
    /\ UNCHANGED <<log, npass, uvars, pvars>>

\* await vault.read(md) throws: nothing in updateImageLinks catches it, the
\* call ends there
ReadFails ==
    /\ pass.phase = "read"
    /\ pass' = [pass EXCEPT !.phase = "failed"]
    /\ UNCHANGED <<docs, log, npass, uvars, pvars>>

\* await vault.modify(md, updated) throws
WriteFails ==
    /\ pass.phase = "write"
    /\ pass' = [pass EXCEPT !.phase = "failed"]
    /\ UNCHANGED <<docs, log, npass, uvars, pvars>>

Next == OnRename \/ OnCreate \/ ReadDoc \/ WriteDoc \/ ReadFails \/ WriteFails

Spec == Init /\ [][Next]_vars

\* the same plugin in a vault of two documents
InitVault ==
    /\ docs \in TwoDocVaults
    /\ pass = NoPass
    /\ log = << >>
    /\ npass = 0
    /\ fs = {}
    /\ up = NoCall
    /\ NothingCut

SpecVault == InitVault /\ [][Next]_vars

\* the same plugin in a vault whose document refers to files with similar
\* names
InitNames ==
    /\ docs \in NameVaults
    /\ pass = NoPass
    /\ log = << >>
    /\ npass = 0
    /\ fs = {}
    /\ up = NoCall
    /\ NothingCut

SpecNames == InitNames /\ [][Next]_vars

(***************************************************************************)
(* A call of uniquePath among other changes of the vault's files           *)
(***************************************************************************)

\* uniquePath(dest, base, ext, folder): let attempt = 1; let candidate = dest
CallUniquePath ==
    /\ up.pc = "idle"
    /\ \E c \in UniqueCalls : up' = UniqueCallOf(c[1], c[2])
    /\ UNCHANGED <<fs, rvars, pvars>>

\* while (await exists(candidate)) { ... } return candidate
ProbeExists ==
    /\ up.pc = "probe"
    /\ (up.candidate \in fs) => up.attempt <= MaxAttempt + 1
    /\ up' = LoopStep(up, up.candidate \in fs)
    /\ UNCHANGED <<fs, rvars, pvars>>

\* the caller takes the returned path
ReturnUnique ==
    /\ up.pc = "done"
    /\ up' = NoCall
    /\ UNCHANGED <<fs, rvars, pvars>>

\* a file appears in the vault: another handler, the user, a sync
FsCreate ==
    /\ \E p \in UniquePaths \ fs : fs' = fs \cup {p}
    /\ UNCHANGED <<up, rvars, pvars>>

\* a file leaves the vault
FsDelete ==
    /\ \E p \in fs : fs' = fs \ {p}
    /\ UNCHANGED <<up, rvars, pvars>>

NextUnique == CallUniquePath \/ ProbeExists \/ ReturnUnique \/ FsCreate \/ FsDelete

InitUnique ==
    /\ docs = << >>
    /\ pass = NoPass
    /\ log = << >>
    /\ npass = 0
    /\ fs \in SUBSET UniquePaths
    /\ NothingCut
    /\ up = NoCall

SpecUnique == InitUnique /\ [][NextUnique]_vars

\* a call of uniquePath in a vault whose files do not change meanwhile; the
\* loop goes on whenever the awaited existence check has answered
NextStable == CallUniquePath \/ ProbeExists \/ ReturnUnique

SpecUniqueStable == InitUnique /\ [][NextStable]_vars /\ WF_vars(ProbeExists)

(***************************************************************************)
(* Cut and paste (src/main.js 82-152, 296-378)                             *)
(***************************************************************************)

\* how often the routines were asked for op so far
Asked(op) == Cardinality({k \in 1..Len(calls) : calls[k].op = op})

\* the call of updateImageLinks(old, new) at its first await
PassFor(old, new) ==
    [kind |-> "full", old |-> old, new |-> new, idx |-> 1,
     phase |-> IF Len(docs) = 0 THEN "done" ELSE "read",
     content |-> << >>, updated |-> << >>]

\* files-menu, Cut: this.cutFiles = selectedFiles, and the notice
CutSelection ==
    \E sel \in Selections :
        /\ loaded
        /\ Asked("cut") < MaxCuts
        /\ Len(SelectedFiles(sel)) > 0
        /\ cutFiles' = SelectedFiles(sel)
        /\ calls' = Append(calls, Call("cut", "", sel, Len(SelectedFiles(sel)), TRUE))
        /\ UNCHANGED <<loaded, again, paste, where, bg, rvars, uvars>>

\* file-menu, Cut: this.cutFiles = [file], and the notice
CutFile ==
    \E file \in {Entries[k] : k \in 1..Len(Entries)} :
        /\ loaded
        /\ Asked("cut") < MaxCuts
        /\ IsFile(file)
        /\ cutFiles' = <<file>>
        /\ calls' = Append(calls, Call("cut", "", <<file>>, 1, TRUE))
        /\ UNCHANGED <<loaded, again, paste, where, bg, rvars, uvars>>

\* the routine that goes on although nothing is held
PasteStartUnguarded(held, folder) ==
    [pc |-> "item", list |-> held, i |-> 1, folder |-> folder,
     successCount |-> 0, failCount |-> 0]

\* if (this.cutFiles.length === 0) return; successCount = 0; failCount = 0;
\* for (const file of this.cutFiles)
PasteStart(held, folder) ==
    IF Len(held) = 0 THEN NoPaste
    ELSE [pc |-> "item", list |-> held, i |-> 1, folder |-> folder,
          successCount |-> 0, failCount |-> 0]

\* the paste that takes the held files away when it begins
PasteInvokeTakesHeld ==
    \E folder \in PasteFolders :
        /\ loaded
        /\ paste.pc = "idle"
        /\ Asked("paste") < MaxPastes
        /\ paste' = PasteStart(cutFiles, folder)
        /\ cutFiles' = << >>
        /\ calls' = Append(calls, Call("paste", "", folder, Len(cutFiles), TRUE))
        /\ UNCHANGED <<loaded, again, where, bg, rvars, uvars>>

\* the menu's Paste is clicked: pasteFiles(targetFolder), or pasteToRoot()
\* when folder is ''
PasteInvoke ==
    \E folder \in PasteFolders :
        /\ loaded
        /\ paste.pc = "idle"
        /\ Asked("paste") < MaxPastes
        /\ paste' = PasteStart(cutFiles, folder)
        /\ calls' = Append(calls, Call("paste", "", folder, Len(cutFiles), TRUE))
        /\ UNCHANGED <<loaded, again, cutFiles, where, bg, rvars, uvars>>

\* the loop left at the first file that fails
NextItemStopsOnFailure(p, success) ==
    IF success
    THEN [p EXCEPT !.pc = "item", !.i = p.i + 1, !.successCount = p.successCount + 1]
    ELSE [p EXCEPT !.pc = "item", !.i = Len(p.list) + 1, !.failCount = p.failCount + 1]

\* the next file of the loop, or the statements after the loop
NextItem(p, success) ==
    [p EXCEPT !.pc = "item", !.i = p.i + 1,
              !.successCount = IF success THEN p.successCount + 1 ELSE p.successCount,
              !.failCount = IF success THEN p.failCount ELSE p.failCount + 1]

\* newPath without the check for a file at the destination
PasteDestinationUnchecked(file, folder) == DestOf(folder, LastSegment(where[file]))

\* newPath of the loop body, lines 303-311 and 346-354
PasteDestination(file, folder) ==
    LET name == LastSegment(where[file])
        dest == DestOf(folder, name)
    IN  IF \E f \in FileIds : where[f] = dest
        THEN RunUniquePath(UniqueCallOf(folder, name), fs)
        ELSE dest

\* await fileManager.renameFile(file, newPath) throws: the catch counts it
MoveFails(file, newPath) ==
    /\ paste' = NextItem(paste, FALSE)
    /\ calls' = Append(calls, Call("move", file, newPath, paste.i, FALSE))
    /\ UNCHANGED <<loaded, again, cutFiles, where, bg, rvars, uvars>>

\* the move without the vault's rename event reaching the rename handler
MoveDoneWithoutEvent(file, oldPath, newPath) ==
    /\ where' = [where EXCEPT ![file] = newPath]
    /\ fs' = (fs \ {oldPath}) \cup {newPath}
    /\ IF isImage(newPath)
       THEN /\ paste' = [paste EXCEPT !.pc = "await"]
            /\ pass' = PassFor(oldPath, newPath)
            /\ log' = << >>
            /\ calls' = calls \o << Call("move", file, newPath, paste.i, TRUE),
                                    Call("rewrite", file, newPath, paste.i, TRUE) >>
       ELSE /\ paste' = NextItem(paste, TRUE)
            /\ calls' = Append(calls, Call("move", file, newPath, paste.i, TRUE))
            /\ UNCHANGED <<pass, log>>
    /\ UNCHANGED <<loaded, again, cutFiles, docs, npass, up, bg>>

\* renameFile has moved the file: the vault's rename event reaches the
\* rename handler, which starts a pass for an image and awaits nothing; the
\* loop body goes on to its own updateImageLinks for an image
MoveDone(file, oldPath, newPath) ==
    /\ where' = [where EXCEPT ![file] = newPath]
    /\ fs' = (fs \ {oldPath}) \cup {newPath}
    /\ bg' = IF loaded /\ isImage(newPath) /\ Len(docs) > 0
              THEN Append(bg, PassFor(oldPath, newPath)) ELSE bg
    /\ IF isImage(newPath)
       THEN /\ paste' = [paste EXCEPT !.pc = "await"]
            /\ pass' = PassFor(oldPath, newPath)
            /\ log' = << >>
            /\ calls' = calls \o << Call("move", file, newPath, paste.i, TRUE),
                                    Call("rewrite", file, newPath, paste.i, TRUE) >>
       ELSE /\ paste' = NextItem(paste, TRUE)
            /\ calls' = Append(calls, Call("move", file, newPath, paste.i, TRUE))
            /\ UNCHANGED <<pass, log>>
    /\ UNCHANGED <<loaded, again, cutFiles, docs, npass, up>>

\* the loop body up to the end of the move
PasteMove ==
    /\ paste.pc = "item"
    /\ paste.i <= Len(paste.list)
    /\ \/ MoveFails(paste.list[paste.i], PasteDestination(paste.list[paste.i], paste.folder))
       \/ MoveDone(paste.list[paste.i], where[paste.list[paste.i]],
                PasteDestination(paste.list[paste.i], paste.folder))

\* the file counted as moved although its rewrite threw
PasteResumeCountsMoved ==
    /\ paste.pc = "await"
    /\ pass.phase \in {"done", "failed"}
    /\ paste' = NextItem(paste, TRUE)
    /\ calls' = Append(calls, Call("returned", paste.list[paste.i], pass.new, paste.i,
                                   pass.phase = "done"))
    /\ UNCHANGED <<loaded, again, cutFiles, where, bg, rvars, uvars>>

\* await this.updateImageLinks(oldPath, newPath) has returned, or has thrown
\* into the catch of the loop body
PasteResume ==
    /\ paste.pc = "await"
    /\ pass.phase \in {"done", "failed"}
    /\ paste' = NextItem(paste, pass.phase = "done")
    /\ calls' = Append(calls, Call("returned", paste.list[paste.i], pass.new, paste.i,
                                   pass.phase = "done"))
    /\ UNCHANGED <<loaded, again, cutFiles, where, bg, rvars, uvars>>

\* the notices after the loop
Notices(p) ==
    (IF p.successCount > 0
     THEN << Call("notice", "", p.folder, p.successCount, TRUE) >> ELSE << >>)
    \o (IF p.failCount > 0
        THEN << Call("notice", "", p.folder, p.failCount, FALSE) >> ELSE << >>)

\* the held files kept when a file of the batch failed
PasteFinishKeepsFailed ==
    /\ paste.pc = "item"
    /\ paste.i > Len(paste.list)
    /\ calls' = calls \o Notices(paste)
    /\ cutFiles' = IF paste.failCount > 0 THEN cutFiles ELSE << >>
    /\ paste' = NoPaste
    /\ UNCHANGED <<loaded, again, where, bg, rvars, uvars>>

\* the held files kept when they are not the files the paste went through
PasteFinishKeepsNewCut ==
    /\ paste.pc = "item"
    /\ paste.i > Len(paste.list)
    /\ calls' = calls \o Notices(paste)
    /\ cutFiles' = IF cutFiles = paste.list THEN << >> ELSE cutFiles
    /\ paste' = NoPaste
    /\ UNCHANGED <<loaded, again, where, bg, rvars, uvars>>

\* the statements after the loop: the notices, and this.cutFiles = []
PasteFinish ==
    /\ paste.pc = "item"
    /\ paste.i > Len(paste.list)
    /\ calls' = calls \o Notices(paste)
    /\ cutFiles' = << >>
    /\ paste' = NoPaste
    /\ UNCHANGED <<loaded, again, where, bg, rvars, uvars>>

\* a pass of the rename handler after its replacements in one document
BgReplaced(k, r) ==
    LET p == bg[k]
        q == IF r.changed
             THEN [p EXCEPT !.phase = "write", !.content = docs[p.idx],
                            !.updated = r.updated]
             ELSE Advance(p)
    IN  bg' = IF q.phase = "done"
              THEN SubSeq(bg, 1, k - 1) \o SubSeq(bg, k + 1, Len(bg))
              ELSE [bg EXCEPT ![k] = q]

\* const content = await vault.read(md) and the replacements, in a pass
\* nobody awaits
BgRead ==
    \E k \in 1..Len(bg) :
        /\ bg[k].phase = "read"
        /\ BgReplaced(k, Rewrite(bg[k].kind, docs[bg[k].idx], bg[k].old, bg[k].new))
        /\ UNCHANGED <<loaded, again, cutFiles, paste, where, calls, rvars, uvars>>

\* a write that is given up when the document is no longer what was read
BgWriteUnlessStale ==
    \E k \in 1..Len(bg) :
        /\ bg[k].phase = "write"
        /\ docs' = IF docs[bg[k].idx] = bg[k].content
                   THEN [docs EXCEPT ![bg[k].idx] = bg[k].updated] ELSE docs
        /\ bg' = IF Advance(bg[k]).phase = "done"
                  THEN SubSeq(bg, 1, k - 1) \o SubSeq(bg, k + 1, Len(bg))
                  ELSE [bg EXCEPT ![k] = Advance(bg[k])]
        /\ UNCHANGED <<loaded, again, cutFiles, paste, where, calls, pass, log, npass, uvars>>

\* await vault.modify(md, updated), in a pass nobody awaits
BgWrite ==
    \E k \in 1..Len(bg) :
        /\ bg[k].phase = "write"
        /\ docs' = [docs EXCEPT ![bg[k].idx] = bg[k].updated]
        /\ bg' = IF Advance(bg[k]).phase = "done"
                  THEN SubSeq(bg, 1, k - 1) \o SubSeq(bg, k + 1, Len(bg))
                  ELSE [bg EXCEPT ![k] = Advance(bg[k])]
        /\ UNCHANGED <<loaded, again, cutFiles, paste, where, calls, pass, log, npass, uvars>>

\* vault.read or vault.modify throws in a pass nobody awaits: the pass ends
BgFails ==
    \E k \in 1..Len(bg) :
        /\ bg' = SubSeq(bg, 1, k - 1) \o SubSeq(bg, k + 1, Len(bg))
        /\ UNCHANGED <<loaded, again, cutFiles, paste, where, calls, rvars, uvars>>

\* the plugin is unloaded: the class has no onunload, the host takes the
\* registered event handlers and menu items away
Unload ==
    /\ loaded
    /\ loaded' = FALSE
    /\ UNCHANGED <<cutFiles, paste, again, where, bg, calls, rvars, uvars>>

\* the pastes of the files of one cut, in a vault with a document
NextPaste ==
    \/ PasteInvoke \/ PasteMove \/ PasteResume \/ PasteFinish
    \/ ReadDoc \/ WriteDoc \/ ReadFails \/ WriteFails
    \/ BgRead \/ BgWrite \/ BgFails \/ Unload

\* the files are where they were at load, and some of them have been cut
InitPaste ==
    /\ docs \in PasteVaults
    /\ pass = NoPass
    /\ log = << >>
    /\ npass = 0
    /\ fs = {FilesAtLoad[f] : f \in FileIds}
    /\ up = NoCall
    /\ loaded = TRUE
    /\ cutFiles \in HeldLists
    /\ paste = NoPaste
    /\ again = NoPaste
    /\ where = FilesAtLoad
    /\ bg = << >>
    /\ calls = << >>

SpecPaste == InitPaste /\ [][NextPaste]_vars

\* cuts and pastes in any order, in a vault without Markdown documents:
\* every pass returns at once
NextTracker ==
    \/ CutSelection \/ CutFile \/ PasteInvoke \/ PasteMove \/ PasteResume
    \/ PasteFinish \/ Unload

InitTracker ==
    /\ docs = << >>
    /\ pass = NoPass
    /\ log = << >>
    /\ npass = 0
    /\ fs = {FilesAtLoad[f] : f \in FileIds}
    /\ up = NoCall
    /\ NothingCut

SpecTracker == InitTracker /\ [][NextTracker]_vars

\* the menu's Paste is clicked while a paste is running: the menu has the
\* item whenever this.cutFiles is not empty
PasteAgain ==
    \E folder \in PasteFolders :
        /\ loaded
        /\ paste.pc # "idle"
        /\ again.pc = "idle"
        /\ Len(cutFiles) > 0
        /\ Asked("paste") < MaxPastes
        /\ again' = PasteStart(cutFiles, folder)
        /\ calls' = Append(calls, Call("paste", "", folder, Len(cutFiles), TRUE))
        /\ UNCHANGED <<loaded, cutFiles, paste, where, bg, rvars, uvars>>

\* the loop body of that call in a vault without Markdown documents, where
\* updateImageLinks has nothing to read: the move fails, or the file is
\* moved and counted
AgainMove ==
    /\ again.pc = "item"
    /\ again.i <= Len(again.list)
    /\ Len(docs) = 0
    /\ LET file == again.list[again.i]
           newPath == PasteDestination(file, again.folder)
       IN  \/ /\ again' = NextItem(again, FALSE)
              /\ calls' = Append(calls, Call("move", file, newPath, again.i, FALSE))
              /\ UNCHANGED <<where, fs>>
           \/ /\ again' = NextItem(again, TRUE)
              /\ calls' = Append(calls, Call("move", file, newPath, again.i, TRUE))
              /\ where' = [where EXCEPT ![file] = newPath]
              /\ fs' = (fs \ {where[file]}) \cup {newPath}
    /\ UNCHANGED <<loaded, cutFiles, paste, bg, rvars, up>>

\* the statements after the loop of that call
AgainFinish ==
    /\ again.pc = "item"
    /\ again.i > Len(again.list)
    /\ calls' = calls \o Notices(again)
    /\ cutFiles' = << >>
    /\ again' = NoPaste
    /\ UNCHANGED <<loaded, paste, where, bg, rvars, uvars>>

\* the files of one cut pasted, and pasted again meanwhile
NextAgain ==
    \/ PasteInvoke \/ PasteMove \/ PasteResume \/ PasteFinish
    \/ PasteAgain \/ AgainMove \/ AgainFinish

InitAgain ==
    /\ docs = << >>
    /\ pass = NoPass
    /\ log = << >>
    /\ npass = 0
    /\ fs = {FilesAtLoad[f] : f \in FileIds}
    /\ up = NoCall
    /\ loaded = TRUE
    /\ cutFiles \in HeldLists
    /\ paste = NoPaste
    /\ again = NoPaste
    /\ where = FilesAtLoad
    /\ bg = << >>
    /\ calls = << >>

SpecAgain == InitAgain /\ [][NextAgain]_vars

\* what a cut may leave in this.cutFiles when the selection goes over both
\* folders: the two images named 'm f.png' may be held together
CollideLists ==
    { SelectSeq(<<"F", "K", "H", "G">>, LAMBDA e : e \in chosen) :
        chosen \in { c \in SUBSET FileIds : Cardinality(c) \in 1..MaxHeld } }

\* one batch that runs alone, in a vault without Markdown documents
NextCollide == PasteInvoke \/ PasteMove \/ PasteResume \/ PasteFinish

InitCollide ==
    /\ docs = << >>
    /\ pass = NoPass
    /\ log = << >>
    /\ npass = 0
    /\ fs = {FilesAtLoad[f] : f \in FileIds}
    /\ up = NoCall
    /\ loaded = TRUE
    /\ cutFiles \in CollideLists
    /\ paste = NoPaste
    /\ again = NoPaste
    /\ where = FilesAtLoad
    /\ bg = << >>
    /\ calls = << >>

SpecCollide == InitCollide /\ [][NextCollide]_vars

\* where the host may move the two images of folder 'a' to
RaceMoves ==
    [f \in {"F", "G"} |->
        IF f = "F" THEN {MovedPath, RenamedPath}
        ELSE {<<"d", "/">> \o OtherFile, OtherFile}]

\* vaults whose documents refer to both images
RaceVaults ==
    LET A == Md(PlainAlt, OldPath)
        B == Wiki(OldDir \o <<"/">> \o OtherFile)
    IN  { <<A \o B>>, <<B \o A>>, <<A, B>>, <<A \o B, B \o A>> }

\* the host has moved an image: vault.on('rename') calls updateImageLinks
\* and does not await it
RenameEvent ==
    \E f \in {"F", "G"} :
        \E newPath \in RaceMoves[f] :
            /\ loaded
            /\ npass < MaxPasses
            /\ where[f] = FilesAtLoad[f]
            /\ isImage(newPath)
            /\ where' = [where EXCEPT ![f] = newPath]
            /\ fs' = (fs \ {where[f]}) \cup {newPath}
            /\ bg' = Append(bg, PassFor(where[f], newPath))
            /\ npass' = npass + 1
            /\ UNCHANGED <<loaded, again, cutFiles, paste, calls, docs, pass, log, up>>

\* rename events of different files, each with its own pass
NextRace == RenameEvent \/ BgRead \/ BgWrite

InitRace ==
    /\ docs \in RaceVaults
    /\ pass = NoPass
    /\ log = << >>
    /\ npass = 0
    /\ fs = {FilesAtLoad[f] : f \in FileIds}
    /\ up = NoCall
    /\ NothingCut

SpecRace == InitRace /\ [][NextRace]_vars

(***************************************************************************)
(* The references of a document, read as the data model describes them:    *)
(* ![alt](target) and ![[target]], found in one pass from left to right    *)
(***************************************************************************)

\* the concatenation of a sequence of strings
RECURSIVE Concat(_)
Concat(ss) == IF ss = << >> THEN << >> ELSE Head(ss) \o Concat(Tail(ss))

\* t occurs in s at position i
OccursAt(t, s, i) ==
    /\ i >= 1
    /\ i + Len(t) - 1 <= Len(s)
    /\ \A k \in 1..Len(t) : s[i + k - 1] = t[k]

Contains(s, t) == \E i \in 1..(Len(s) - Len(t) + 1) : OccursAt(t, s, i)

\* number of (possibly overlapping) occurrences of t in s
Count(s, t) == Cardinality({i \in 1..(Len(s) - Len(t) + 1) : OccursAt(t, s, i)})

\* the ']' that closes an alt text (brackets inside it are balanced, and it
\* stays on one line), 0 if there is none
RECURSIVE AltClose(_, _, _)
AltClose(s, j, depth) ==
    IF j > Len(s) \/ s[j] = NL THEN 0
    ELSE IF s[j] = "[" THEN AltClose(s, j + 1, depth + 1)
    ELSE IF s[j] = "]" THEN (IF depth = 0 THEN j ELSE AltClose(s, j + 1, depth - 1))
    ELSE AltClose(s, j + 1, depth)

NoRef == [kind |-> "none", alt |-> << >>, target |-> << >>, end |-> 0]

\* the reference that starts at position i of s, or NoRef
RefAt(s, i) ==
    LET w == RunEnd(s, i + 3, {"]"})
        c == AltClose(s, i + 2, 0)
        e == RunEnd(s, c + 2, {")"})
    IN  IF OccursAt(<<"!", "[", "[">>, s, i) /\ OccursAt(<<"]", "]">>, s, w)
        THEN [kind |-> "wiki", alt |-> << >>, target |-> Slice(s, i + 3, w - 1), end |-> w + 2]
        ELSE IF OccursAt(<<"!", "[">>, s, i) /\ c > 0 /\ OccursAt(<<"(">>, s, c + 1)
                /\ e <= Len(s)
        THEN [kind |-> "md", alt |-> Slice(s, i + 2, c - 1),
              target |-> Slice(s, c + 2, e - 1), end |-> e + 1]
        ELSE NoRef

\* s from position from on as items: a text, then a reference, then a text, ...
RECURSIVE ParseFrom(_, _)
ParseFrom(s, from) ==
    LET starts == {j \in from..Len(s) : s[j] = "!" /\ RefAt(s, j) # NoRef}
    IN  IF starts = {}
        THEN <<[kind |-> "text", alt |-> << >>, target |-> Slice(s, from, Len(s))]>>
        ELSE LET i == CHOOSE j \in starts : \A k \in starts : j <= k
                 r == RefAt(s, i)
             IN  <<[kind |-> "text", alt |-> << >>, target |-> Slice(s, from, i - 1)],
                   [kind |-> r.kind, alt |-> r.alt, target |-> r.target]>>
                 \o ParseFrom(s, r.end)

Parse(s) == ParseFrom(s, 1)
IsRef(item) == item.kind # "text"
IsText(item) == item.kind = "text"
Refs(s) == SelectSeq(Parse(s), IsRef)
Texts(s) == SelectSeq(Parse(s), IsText)

\* percent-encoding as far as the paths here need it: a space is %20
RECURSIVE SpaceEncoded(_)
SpaceEncoded(s) ==
    IF s = << >> THEN << >>
    ELSE (IF Head(s) = " " THEN <<"%", "2", "0">> ELSE <<Head(s)>>) \o SpaceEncoded(Tail(s))

\* the new vault-root absolute path, and the target a reference to it carries
RootPath(new) == <<"/">> \o new
TargetFor(kind, new) == IF kind = "md" THEN SpaceEncoded(RootPath(new)) ELSE RootPath(new)

ContainsCI(s, t) == Contains(CanonStr(s), CanonStr(t))

\* the reference matches the identity of the file called name: its target
\* contains the name, for a Markdown reference raw or percent-encoded
MatchesIdentity(r, name) ==
    \/ ContainsCI(r.target, name)
    \/ r.kind = "md" /\ ContainsCI(r.target, SpaceEncoded(name))

\* no other reference begins inside the target
PlainTarget(r) == ~Contains(r.target, <<"!", "[">>)
NoEmbedInAlt(r) == ~Contains(r.alt, <<"!", "[">>)

AtNewPath(r, new) == r.target = TargetFor(r.kind, new)

\* the item with its target replaced by the new path
Moved(item, new) ==
    CASE item.kind = "md" -> Md(item.alt, TargetFor("md", new))
      [] item.kind = "wiki" -> Wiki(TargetFor("wiki", new))
      [] OTHER -> item.target

\* the name a pass looks for
OldName == LastSegment(pass.old)

(***************************************************************************)
(* Claims                                                                  *)
(***************************************************************************)

\* C1: after a full rewrite pass that ran alone, every document is either
\* byte-identical to what the pass read, or holds no reference matching the
\* old identity whose target is not the new vault-root path (percent-encoded
\* in a Markdown reference, raw in a wiki reference).
C1_FullPassLeavesNoOldReference ==
    (pass.kind = "full" /\ pass.phase = "done") =>
        \A d \in 1..Len(docs) :
            \/ docs[d] = log[d].content
            \/ LET rs == Refs(docs[d])
               IN  \A k \in 1..Len(rs) :
                       (PlainTarget(rs[k]) /\ MatchesIdentity(rs[k], OldName))
                           => AtNewPath(rs[k], pass.new)

C3_AltTextPreserved ==
    \A k \in 1..Len(log) :
        LET rs == Refs(log[k].content)
        IN  \A j \in 1..Len(rs) :
                (/\ rs[j].kind = "md"
                 /\ PlainTarget(rs[j])
                 /\ MatchesIdentity(rs[j], OldName))
                => Contains(log[k].updated, Md(rs[j].alt, TargetFor("md", pass.new)))

\* the spellings of one Markdown reference to the file: by name and by path,
\* raw and percent-encoded
Spellings ==
    { Md(PlainAlt, Name), Md(PlainAlt, SpaceEncoded(Name)),
      Md(PlainAlt, OldPath), Md(PlainAlt, SpaceEncoded(OldPath)) }

\* C4: a document holding the percent-encoded spelling of a reference and a
\* document holding the raw spelling are both rewritten, to the same
\* percent-encoded new target.
C4_EncodedAndRawSpellings ==
    \A k \in 1..Len(log) :
        log[k].content \in Spellings
            => /\ log[k].changed
               /\ log[k].updated = Md(PlainAlt, TargetFor("md", pass.new))

\* a pass has rewritten "![x](m%20f.png)" in one document and "![x](m f.png)"
\* in the other, and both now read "![x](/d/m%20f.png)"
C4_Witness ==
    /\ pass.phase = "done" /\ Len(log) = 2
    /\ log[1].content = Md(PlainAlt, <<"m", "%", "2", "0", "f", ".", "p", "n", "g">>)
    /\ log[2].content = Md(PlainAlt, Name)
    /\ docs[1] = docs[2]
    /\ docs[1] = Md(PlainAlt, <<"/", "d", "/", "m", "%", "2", "0", "f", ".", "p", "n", "g">>)

\* C5: when a wiki rule fires the output holds ![[/new path]] with the path
\* raw, and no wiki reference to the percent-encoded path is added; when a
\* Markdown rule fires the output holds ](/new%20path) percent-encoded, and
\* no Markdown target with the raw path is added.
C5_WikiRawMarkdownEncoded ==
    \A k \in 1..Len(log) :
        LET e == log[k]
            raw == RootPath(pass.new)
            enc == SpaceEncoded(raw)
            mdRaw == <<"]", "(">> \o raw \o <<")">>
            mdEnc == <<"]", "(">> \o enc \o <<")">>
        IN  /\ e.fired[3] + e.fired[4] > 0 => Contains(e.updated, Wiki(raw))
            /\ e.fired[1] + e.fired[2] > 0 => Contains(e.updated, mdEnc)
            /\ raw # enc => /\ Count(e.updated, Wiki(enc)) <= Count(e.content, Wiki(enc))
                            /\ Count(e.updated, mdRaw) <= Count(e.content, mdRaw)

\* a pass to a path with a space has rewritten a Markdown and a wiki reference
C5_Witness ==
    /\ pass.phase = "done" /\ pass.new = MovedPath
    /\ log[1].fired[1] > 0 /\ log[1].fired[3] > 0
    /\ Contains(docs[1], <<"!", "[", "[", "/", "d", "/", "m", " ", "f", ".", "p", "n", "g", "]", "]">>)
    /\ Contains(docs[1], <<"]", "(", "/", "d", "/", "m", "%", "2", "0", "f", ".", "p", "n", "g", ")">>)

\* C6: after the by-name pass of a create event, every reference whose
\* target contains the file name has the new vault-root path as its target.
C6_ByNameRewritesNamedReferences ==
    (pass.kind = "byName" /\ pass.phase = "done") =>
        \A d \in 1..Len(docs) :
            LET rs == Refs(docs[d])
            IN  \A k \in 1..Len(rs) :
                    (PlainTarget(rs[k]) /\ MatchesIdentity(rs[k], pass.old))
                        => AtNewPath(rs[k], pass.new)

\* C7: once a by-name pass is done, the same pass applied again changes no
\* document.
C7_ByNameIdempotent ==
    (pass.kind = "byName" /\ pass.phase = "done") =>
        \A d \in 1..Len(docs) :
            RewriteByName(docs[d], pass.old, pass.new).updated = docs[d]

\* C8: a pass whose new path is its old path leaves the text outside the
\* references as it was and the number of references as it was.
C8_NoOpMoveKeepsReferences ==
    (pass.kind = "full" /\ pass.new = pass.old) =>
        \A k \in 1..Len(log) :
            /\ Len(Refs(log[k].updated)) = Len(Refs(log[k].content))
            /\ Texts(log[k].updated) = Texts(log[k].content)

\* the number of references of s that satisfy Test
NumRefs(s, Test(_)) == Len(SelectSeq(Refs(s), Test))

\* C9: a pass reads every document of the vault, and a document that held
\* k references to the moved file holds at least k references to the new
\* path once the pass is done.
C9_EveryReferenceInEveryDocument ==
    pass.phase = "done" =>
        /\ Len(log) = Len(docs)
        /\ \A d \in 1..Len(docs) :
               LET ToOld(r) == PlainTarget(r) /\ MatchesIdentity(r, OldName)
                   ToNew(r) == AtNewPath(r, pass.new)
               IN  NumRefs(docs[d], ToNew) >= NumRefs(log[d].content, ToOld)

\* C10: the path uniquePath returns has been probed, and the last probe of
\* it answered that it does not exist.
C10_ReturnedPathProbedFree ==
    up.pc = "done" =>
        \E k \in 1..Len(up.probes) :
            /\ up.probes[k].path = up.result
            /\ ~up.probes[k].answer
            /\ \A j \in (k + 1)..Len(up.probes) : up.probes[j].path # up.result

\* a call has returned its second candidate, which exists by now
C10_Witness ==
    /\ up.pc = "done"
    /\ Len(up.probes) = 3
    /\ up.probes[1].answer /\ up.probes[2].answer
    /\ up.result = <<"d", "/", "m", " ", "2", ".", "p", "n", "g">>
    /\ up.result \in fs

\* 'base N.ext' in the folder, and the desired path 'base.ext' there
RECURSIVE Decimal(_)
Decimal(n) ==
    IF n < 10 THEN <<DigitChars[n + 1]>>
    ELSE Decimal(n \div 10) \o <<DigitChars[(n % 10) + 1]>>

InFolder(folder, name) ==
    IF folder \in {<< >>, <<"/">>} THEN name ELSE folder \o <<"/">> \o name

DotExt(ext) == IF ext = << >> THEN << >> ELSE <<".">> \o ext

Desired(u) == InFolder(u.folder, u.base \o DotExt(u.ext))
Numbered(u, n) == InFolder(u.folder, u.base \o <<" ">> \o Decimal(n) \o DotExt(u.ext))

\* C11: in a vault whose files do not change during the call, uniquePath
\* returns the desired path if it does not exist, and otherwise 'base N.ext'
\* in the folder for the first N from 1 on whose candidate does not exist:
\* the desired path and 'base 1.ext' .. 'base (N-1).ext' all exist, they were
\* probed in this order, and with an empty folder argument the returned
\* path has no folder prefix.
C11_FirstFreeCounterReturned ==
    up.pc = "done" =>
        LET n == Len(up.probes) - 1
        IN  /\ up.result \notin fs
            /\ up.probes[1].path = Desired(up)
            /\ \A k \in 1..n : up.probes[k + 1].path = Numbered(up, k)
            /\ up.result = IF n = 0 THEN Desired(up) ELSE Numbered(up, n)
            /\ n > 0 => Desired(up) \in fs
            /\ \A k \in 1..(n - 1) : Numbered(up, k) \in fs
            /\ up.folder = << >> => \A k \in 1..Len(up.result) : up.result[k] # "/"

\* 'm.png' and 'm 1.png' exist in the root: the call with the empty folder
\* argument returns 'm 2.png'
C11_Witness ==
    /\ up.pc = "done"
    /\ up.folder = << >>
    /\ {<<"m", ".", "p", "n", "g">>, <<"m", " ", "1", ".", "p", "n", "g">>} \subseteq fs
    /\ up.result = <<"m", " ", "2", ".", "p", "n", "g">>

\* C12: in a vault of finitely many files that do not change during the
\* call, a call of uniquePath that has begun probing returns.
C12_UniquePathTerminates == (up.pc = "probe") ~> (up.pc = "done")

\* a call has returned after every counter up to the highest existing one
\* was taken
C12_Witness ==
    /\ up.pc = "done"
    /\ Len(up.probes) = MaxAttempt + 2
    /\ \A k \in 1..(MaxAttempt + 1) : up.probes[k].answer /\ up.probes[k].path \in fs

\* the image files among the files of the vault
ImageIds == {"F", "G", "K"}

\* the loop of the paste routine has gone through the held files
LoopEnded == paste.pc = "item" /\ paste.i > Len(paste.list)

\* the calls of the move primitive for the file at position j of the loop
MovesOf(j) == {k \in 1..Len(calls) : calls[k].op = "move" /\ calls[k].n = j}

\* C13: when the loop of a paste has gone through the held files, the move
\* primitive has been called exactly once for each of them, whatever happened
\* to the others: a file whose move the host accepted is at its new path
\* (nothing is rolled back), a file whose move failed is where it was, and
\* for every moved image the routine has called the full rewrite and awaited
\* its return.
C13_BatchIndependence ==
    LoopEnded =>
        \A j \in 1..Len(paste.list) :
            /\ Cardinality(MovesOf(j)) = 1
            /\ \A k \in MovesOf(j) :
                 /\ calls[k].file = paste.list[j]
                 /\ calls[k].ok => where[paste.list[j]] = calls[k].to
                 /\ ~calls[k].ok => where[paste.list[j]] = FilesAtLoad[paste.list[j]]
                 /\ (calls[k].ok /\ paste.list[j] \in ImageIds) =>
                        /\ k + 2 <= Len(calls)
                        /\ calls[k + 1] = Call("rewrite", paste.list[j], calls[k].to, j, TRUE)
                        /\ calls[k + 2].op = "returned"

\* a batch of three files: the move of the second failed, the first and the
\* third were moved and their rewrites returned
C13_Witness ==
    /\ LoopEnded
    /\ paste.list = <<"F", "H", "G">>
    /\ paste.successCount = 2 /\ paste.failCount = 1
    /\ \E k \in MovesOf(2) : ~calls[k].ok
    /\ where["F"] # FilesAtLoad["F"] /\ where["G"] # FilesAtLoad["G"]

\* C14: the step in which a running pasteFiles / pasteToRoot completes leaves
\* the held set empty, whatever the moves of its files came to.
C14_HeldEmptyAfterPaste ==
    [][(paste.pc # "idle" /\ paste'.pc = "idle") => cutFiles' = << >>]_vars

\* a paste has completed with a file moved and a file failed, and nothing is
\* held
C14_Witness ==
    /\ paste.pc = "idle"
    /\ cutFiles = << >>
    /\ \E j, k \in 1..Len(calls) :
         /\ calls[j].op = "notice" /\ calls[j].ok
         /\ calls[k].op = "notice" /\ ~calls[k].ok

\* the files of a selection
FilesOf(sel) == SelectSeq(sel, LAMBDA e : e \in FileIds)
Elements(seq) == {seq[k] : k \in 1..Len(seq)}

\* C15: the held set holds files only, and a cut, with or without files held
\* before, makes it exactly the files of the new selection.
C15_CutReplacesHeld ==
    /\ [](Elements(cutFiles) \subseteq FileIds)
    /\ [][(Len(calls') = Len(calls) + 1 /\ calls'[Len(calls')].op = "cut") =>
            /\ cutFiles' = FilesOf(calls'[Len(calls')].to)
            /\ cutFiles' # << >>]_vars

\* F was held; a cut of the folder and G made G the only held file
C15_Witness ==
    /\ Len(calls) = 2
    /\ calls[1].op = "cut" /\ "F" \in Elements(calls[1].to)
    /\ calls[2].op = "cut" /\ calls[2].to = <<FolderEntry, "G">>
    /\ cutFiles = <<"G">>

\* C16: a paste invoked while nothing is held does nothing: no paste is
\* running after it, no move, no rewrite and no notice was asked for, no
\* document, file or pass has changed and the held set is still empty.
C16_PasteWhileIdleDoesNothing ==
    [][(/\ Len(calls') > Len(calls)
        /\ calls'[Len(calls) + 1].op = "paste"
        /\ cutFiles = << >>) =>
            /\ calls' = Append(calls, calls'[Len(calls) + 1])
            /\ paste' = NoPaste
            /\ cutFiles' = << >>
            /\ UNCHANGED <<docs, where, fs, bg, pass, log>>]_vars

\* after a paste that moved a file, a paste was invoked with nothing held
C16_Witness ==
    /\ Len(calls) > 1
    /\ calls[Len(calls)].op = "paste" /\ calls[Len(calls)].n = 0
    /\ paste.pc = "idle"
    /\ \E j \in 1..Len(calls) : calls[j].op = "notice" /\ calls[j].ok

\* C17: in the calls of a paste, a rewrite is asked for only right after the
\* successful move of the same file to the same path, and only for an image;
\* after the successful move of an image the rewrite is asked for; the call
\* after a rewrite is the return of that rewrite, which comes when its pass
\* has ended, so every later move comes after it; the moves go through the
\* held files in order.
C17_MoveThenRewrite ==
    /\ \A k \in 1..Len(calls) :
         /\ calls[k].op = "rewrite" =>
              /\ k > 1
              /\ calls[k - 1] = Call("move", calls[k].file, calls[k].to, calls[k].n, TRUE)
              /\ calls[k].file \in ImageIds
         /\ (calls[k].op = "move" /\ calls[k].ok /\ calls[k].file \in ImageIds) =>
              k < Len(calls) /\ calls[k + 1].op = "rewrite"
         /\ (calls[k].op = "rewrite" /\ k < Len(calls)) =>
              calls[k + 1].op = "returned" /\ calls[k + 1].n = calls[k].n
         /\ (calls[k].op = "move" /\ k > 1) => calls[k - 1].op # "rewrite"
         /\ calls[k].op = "move" =>
              \A j \in 1..(k - 1) : calls[j].op = "move" => calls[j].n < calls[k].n
    /\ (calls # << >> /\ calls[Len(calls)].op = "rewrite") =>
         /\ paste.pc = "await"
         /\ pass.kind = "full" /\ pass.new = calls[Len(calls)].to
    /\ paste.pc = "await" => calls[Len(calls)].op = "rewrite"

\* F was moved and rewritten, then the note H was moved, and G is moved
\* right after it
C17_Witness ==
    /\ Len(calls) >= 6
    /\ \E k \in 1..(Len(calls) - 4) :
         /\ calls[k].op = "move" /\ calls[k].file = "F" /\ calls[k].ok
         /\ calls[k + 1].op = "rewrite"
         /\ calls[k + 2].op = "returned"
         /\ calls[k + 3].op = "move" /\ calls[k + 3].file = "H" /\ calls[k + 3].ok
         /\ calls[k + 4].op = "move" /\ calls[k + 4].file = "G"

\* C18: when a pass has ended, every document that names the old file has
\* been scanned, but for the document whose read or write failed.
C18_FailureSkipsOnlyThatDocument ==
    pass.phase \in {"done", "failed"} =>
        \A d \in 1..Len(docs) :
            Contains(docs[d], OldName) =>
                \/ \E k \in 1..Len(log) : log[k].doc = d
                \/ pass.phase = "failed" /\ pass.idx = d

\* C19: when the plugin is not loaded, no file is held.
C19_HeldClearedOnUnload == ~loaded => cutFiles = << >>

\* how often the callbacks ran in the document of a log entry
Fired(e) == e.fired[1] + e.fired[2] + e.fired[3] + e.fired[4]

\* C20: a document is marked changed, and is written, if and only if its
\* text after the substitutions differs from the text read.
C20_WrittenIffTextDiffers ==
    /\ \A k \in 1..Len(log) : log[k].changed <=> (log[k].updated # log[k].content)
    /\ pass.phase = "write" => pass.updated # pass.content

\* C20, as the code has it: a document is written if and only if a
\* replacement callback ran in it; a text that differs after the
\* substitutions means a callback ran, and without a match nothing is
\* written; documents change in write steps only.
C20_WrittenIffCallbackRan ==
    /\ [](/\ \A k \in 1..Len(log) :
               /\ log[k].changed <=> (Fired(log[k]) > 0)
               /\ log[k].updated # log[k].content => log[k].changed
          /\ pass.phase = "write" =>
               /\ log # << >>
               /\ log[Len(log)].changed
               /\ log[Len(log)].doc = pass.idx
               /\ pass.updated = log[Len(log)].updated)
    /\ [][(Len(log') = Len(log) + 1) =>
            ((pass'.phase = "write") <=> log'[Len(log')].changed)]_vars
    /\ [][docs' # docs => pass.phase = "write"]_vars

\* a callback ran and wrote what was there: the document is written with the
\* text that was read
C20_Witness ==
    /\ pass.phase = "write"
    /\ pass.updated = pass.content
    /\ Fired(log[Len(log)]) > 0

\* the text of an item as it stands in the document
ItemText(item) ==
    CASE item.kind = "md" -> Md(item.alt, item.target)
      [] item.kind = "wiki" -> Wiki(item.target)
      [] OTHER -> item.target

\* the file name a reference's target ends with
TargetName(r) == LastSegment(r.target)

EndsWithCI(s, t) ==
    Len(t) <= Len(s) /\ CanonStr(Slice(s, Len(s) - Len(t) + 1, Len(s))) = CanonStr(t)

\* a reference to another file whose name is a part of the name looked for
NamePartOf(r, name) ==
    /\ TargetName(r) # << >>
    /\ CanonStr(TargetName(r)) # CanonStr(name)
    /\ ContainsCI(name, TargetName(r))

\* the reference is one the patterns take for the file called name: the
\* target of a Markdown reference contains the name, raw or percent-encoded,
\* the target of a wiki reference ends with it
TakenFor(r, name) ==
    \/ r.kind = "md" /\ MatchesIdentity(r, name)
    \/ r.kind = "wiki" /\ EndsWithCI(r.target, name)

\* the document with the references taken for the file moved to the new
\* path and everything else as it was
Expected(items, name, new) ==
    Concat([j \in 1..Len(items) |->
               IF IsRef(items[j]) /\ TakenFor(items[j], name)
               THEN Moved(items[j], new) ELSE ItemText(items[j])])

\* C22, as stated: a reference to another file whose name is a part of the
\* name a pass looks for is rewritten to the new path.
C22_PartOfOldNameRewritten ==
    \A k \in 1..Len(log) :
        LET rs == Refs(log[k].content)
        IN  \A j \in 1..Len(rs) :
                NamePartOf(rs[j], OldName) =>
                    /\ log[k].changed
                    /\ Contains(log[k].updated, Moved(rs[j], pass.new))

\* C22, as the code has it: the by-name rules look for the old name inside
\* the target, so they take a reference to another file whose name contains
\* the old name (anywhere in a Markdown target, at the end of a wiki target)
\* and rewrite it to the new path; a reference to a file whose name is only
\* a part of the old name is left as it is.
C22_NameContainingOldNameRewritten ==
    \A k \in 1..Len(log) :
        LET items == Parse(log[k].content)
        IN  /\ log[k].updated = Expected(items, OldName, pass.new)
            /\ \A j \in 1..Len(items) :
                   (IsRef(items[j]) /\ NamePartOf(items[j], OldName))
                       => ~TakenFor(items[j], OldName)

\* a pass has left '![x](f.png)' alone and has rewritten '![[xm f.png]]'
C22_Witness ==
    /\ pass.phase = "done" /\ pass.new = MovedPath
    /\ log[1].content = Md(PlainAlt, SubName) \o Wiki(SuperName)
    /\ docs[1] = Md(PlainAlt, SubName) \o Wiki(RootPath(MovedPath))

\* C23: a pass leaves no wiki reference whose target contains the file name,
\* wherever in the target and whatever follows it, at another target than
\* the new path.
C23_WikiNameAnywhereRewritten ==
    \A k \in 1..Len(log) :
        LET rs == Refs(log[k].updated)
        IN  \A j \in 1..Len(rs) :
                (rs[j].kind = "wiki" /\ ContainsCI(rs[j].target, OldName))
                    => AtNewPath(rs[j], pass.new)

\* the references of the text are plain: none begins inside the alt text or
\* the target of another
PlainRefs(items) ==
    \A j \in 1..Len(items) :
        IsRef(items[j]) => PlainTarget(items[j]) /\ NoEmbedInAlt(items[j])

\* C24: a full pass rewrites every reference whose target contains the old
\* file name, the references to a file of that name at another path
\* included, and leaves every other reference and the text between the
\* references as they were.
C24_OnlyTargetsWithoutNameUnchanged ==
    pass.kind = "full" =>
        \A k \in 1..Len(log) :
            LET items == Parse(log[k].content)
            IN  PlainRefs(items) =>
                    log[k].updated =
                        Concat([j \in 1..Len(items) |->
                                   IF IsRef(items[j]) /\ MatchesIdentity(items[j], OldName)
                                   THEN Moved(items[j], pass.new) ELSE ItemText(items[j])])

\* the un-awaited pass at position k ends, or goes on, in this step
PassLeft(k) ==
    /\ Len(bg') = Len(bg) - 1
    /\ bg' = SubSeq(bg, 1, k - 1) \o SubSeq(bg, k + 1, Len(bg))
PassStepped(k) == Len(bg') = Len(bg) /\ bg'[k] # bg[k]

\* C21: nothing keeps the passes of two rename events apart: a pass that
\* has computed the new text of a document writes exactly that text when its
\* write comes, whatever another pass has written to the document since the
\* read, and every change of a document is such a write.
C21_WritesNotSerialized ==
    /\ [][\A k \in 1..Len(bg) :
            (bg[k].phase = "write" /\ (PassLeft(k) \/ PassStepped(k)))
                => docs'[bg[k].idx] = bg[k].updated]_vars
    /\ [][docs' # docs =>
            \E k \in 1..Len(bg) :
                /\ bg[k].phase = "write"
                /\ docs' = [docs EXCEPT ![bg[k].idx] = bg[k].updated]]_vars

\* both images were moved, both passes have ended, and the document still
\* refers to 'a/q.png', while the reference to the other image is rewritten
C21_Witness ==
    /\ npass = 2 /\ bg = << >>
    /\ where["F"] # FilesAtLoad["F"] /\ where["G"] # FilesAtLoad["G"]
    /\ Len(docs) = 1
    /\ Contains(docs[1], Wiki(FilesAtLoad["G"]))
    /\ ~Contains(docs[1], Md(PlainAlt, OldPath))

\* this step asks the move primitive for a move; what it asks
MoveAsked == Len(calls') > Len(calls) /\ calls'[Len(calls) + 1].op = "move"
AskedMove == calls'[Len(calls) + 1]

\* 'base n.ext' in the folder for the file name
NumberedIn(folder, name, n) ==
    InFolder(folder, getFileNameAndExtension(name).name \o <<" ">> \o Decimal(n)
                        \o DotExt(getFileNameAndExtension(name).extension))

\* path is 'base n.ext' in the folder for the first n from 1 on that does
\* not exist
FirstFreeNumbered(path, folder, name) ==
    \E n \in 1..(Cardinality(fs) + 1) :
        /\ path = NumberedIn(folder, name, n)
        /\ path \notin fs
        /\ \A m \in 1..(n - 1) : NumberedIn(folder, name, m) \in fs

\* C28: when a paste comes to a held file that is in the target folder
\* already, the move it asks for is not to the file's own path but to
\* 'base N.ext' in that folder for the first free N; when the host accepts
\* the move the file is at that path, and for an image the full rewrite is
\* called from the old path to that path.
C28_PasteIntoOwnFolderRenames ==
    [][(/\ MoveAsked
        /\ InFolder(paste.folder, LastSegment(where[AskedMove.file])) = where[AskedMove.file]) =>
            /\ AskedMove.to # where[AskedMove.file]
            /\ FirstFreeNumbered(AskedMove.to, paste.folder, LastSegment(where[AskedMove.file]))
            /\ AskedMove.ok =>
                 /\ where'[AskedMove.file] = AskedMove.to
                 /\ AskedMove.file \in ImageIds =>
                      /\ calls'[Len(calls) + 2].op = "rewrite"
                      /\ calls'[Len(calls) + 2].to = AskedMove.to
                      /\ pass'.kind = "full"
                      /\ pass'.old = where[AskedMove.file]
                      /\ pass'.new = AskedMove.to]_vars

\* 'a/m f.png' was pasted into folder 'a': it is 'a/m f 1.png' now, the
\* rewrite has returned and the document refers to '/a/m%20f%201.png'
C28_Witness ==
    /\ where["F"] = <<"a", "/", "m", " ", "f", " ", "1", ".", "p", "n", "g">>
    /\ \E k \in 1..Len(calls) :
         /\ calls[k].op = "returned" /\ calls[k].file = "F" /\ calls[k].ok
    /\ Contains(docs[1], Md(PlainAlt, <<"/", "a", "/", "m", "%", "2", "0", "f", "%", "2", "0",
                                       "1", ".", "p", "n", "g">>))

\* the move of the file at position j was accepted; its rewrite threw; the
\* file went through the loop body without an exception
MoveAccepted(j) == \E k \in MovesOf(j) : calls[k].ok
RewriteThrew(j) ==
    \E k \in 1..Len(calls) :
        calls[k].op = "returned" /\ calls[k].n = j /\ ~calls[k].ok
RewriteReturned(j) ==
    \E k \in 1..Len(calls) :
        calls[k].op = "returned" /\ calls[k].n = j /\ calls[k].ok
Completed(j) ==
    MoveAccepted(j) /\ (paste.list[j] \in ImageIds => RewriteReturned(j))

\* C29: while a paste goes through the held files its two counts add up to
\* the files it has been through, and at the end of the loop to the number
\* of held files; successCount is the number of files whose move was
\* accepted and, for an image, whose rewrite returned; a file whose move was
\* accepted and whose rewrite threw is among the failures, is at its new
\* path, and the file after it has been passed to the move primitive.
C29_CountsAddUp ==
    /\ paste.pc = "item" => paste.successCount + paste.failCount = paste.i - 1
    /\ LoopEnded =>
         /\ paste.successCount + paste.failCount = Len(paste.list)
         /\ paste.successCount = Cardinality({j \in 1..Len(paste.list) : Completed(j)})
         /\ paste.failCount = Cardinality({j \in 1..Len(paste.list) : ~Completed(j)})
         /\ \A j \in 1..Len(paste.list) :
              (MoveAccepted(j) /\ RewriteThrew(j)) =>
                  /\ ~Completed(j)
                  /\ \A k \in MovesOf(j) : where[paste.list[j]] = calls[k].to
                  /\ j < Len(paste.list) => MovesOf(j + 1) # {}

\* of two images the first was moved and its rewrite threw, the second was
\* moved and rewritten: one success, one failure, both files moved
C29_Witness ==
    /\ LoopEnded
    /\ paste.list = <<"F", "G">>
    /\ MoveAccepted(1) /\ RewriteThrew(1)
    /\ Completed(2)
    /\ paste.successCount = 1 /\ paste.failCount = 1
    /\ where["F"] # FilesAtLoad["F"] /\ where["G"] # FilesAtLoad["G"]

\* C25: when a paste has moved an image, the pass the paste routine awaits
\* and, while the plugin is loaded, a pass of the rename handler that nobody
\* awaits are started, both from the file's old path to its new path.
C25_TwoPassesPerPastedImage ==
    [][(MoveAsked /\ AskedMove.ok /\ AskedMove.file \in ImageIds) =>
            /\ pass' = PassFor(where[AskedMove.file], AskedMove.to)
            /\ loaded => bg' = Append(bg, PassFor(where[AskedMove.file], AskedMove.to))]_vars

\* two images were pasted and counted as moved, every pass has ended, and
\* the document still refers to the second image by its old path 'a/q.png'
C25_Witness ==
    /\ paste.pc = "idle" /\ cutFiles = << >>
    /\ bg = << >> /\ pass.phase = "done"
    /\ where["F"] # FilesAtLoad["F"] /\ where["G"] # FilesAtLoad["G"]
    /\ \E k \in 1..Len(calls) : calls[k] = Call("notice", "", calls[k].to, 2, TRUE)
    /\ \A k \in 1..Len(calls) : calls[k].ok
    /\ Contains(docs[1], Wiki(FilesAtLoad["G"]))

\* the paths of the files of the vault
Occupied == {where[f] : f \in FileIds}

\* C30: in a batch that runs alone, every move the paste asks for goes to a
\* path where no file is, neither in the host's index nor in its storage:
\* to the folder's path plus the file's name when that is free, and else to
\* 'base N.ext' for the first free N; so the files it moves go to different
\* paths, and no two files of the vault are ever at the same path.
C30_DistinctFreeDestinations ==
    /\ [][MoveAsked =>
            /\ AskedMove.to \notin Occupied
            /\ AskedMove.to \notin fs
            /\ LET name == LastSegment(where[AskedMove.file])
                   desired == InFolder(paste.folder, name)
               IN  IF desired \in Occupied
                   THEN FirstFreeNumbered(AskedMove.to, paste.folder, name)
                   ELSE AskedMove.to = desired]_vars
    /\ [](/\ \A j, k \in 1..Len(calls) :
               (/\ j # k
                /\ calls[j].op = "move" /\ calls[j].ok
                /\ calls[k].op = "move" /\ calls[k].ok) => calls[j].to # calls[k].to
          /\ \A f, g \in FileIds : f # g => where[f] # where[g])

\* the two images named 'm f.png' were pasted into folder 'd', where one of
\* them was: the first is 'd/m f 1.png', the second 'd/m f 2.png'
C30_Witness ==
    /\ LoopEnded
    /\ paste.list = <<"F", "K">>
    /\ where["F"] = <<"d", "/", "m", " ", "f", " ", "1", ".", "p", "n", "g">>
    /\ where["K"] = <<"d", "/", "m", " ", "f", " ", "2", ".", "p", "n", "g">>

\* this step is a cut
CutDone == Len(calls') = Len(calls) + 1 /\ calls'[Len(calls')].op = "cut"

\* C26: a cut while a paste is running leaves that paste as it is; a
\* running paste goes through the files that were held when it was invoked,
\* in their order, and through no others; and when it completes nothing is
\* held, the files of a cut made meanwhile included.
C26_CutDuringPasteDiscarded ==
    /\ [][(CutDone /\ paste.pc # "idle") => paste' = paste]_vars
    /\ [][(paste.pc = "idle" /\ paste'.pc # "idle") => paste'.list = cutFiles]_vars
    /\ [][(paste.pc # "idle" /\ paste'.pc # "idle") => paste'.list = paste.list]_vars
    /\ [][(MoveAsked /\ paste.pc # "idle") => AskedMove.file = paste.list[AskedMove.n]]_vars
    /\ [][(paste.pc # "idle" /\ paste'.pc = "idle" /\ cutFiles # paste.list)
            => cutFiles' = << >>]_vars

\* F and H were held and pasted; G was cut after the move of F and before
\* the move of H; the paste is over, nothing is held and G was never moved
C26_Witness ==
    /\ paste.pc = "idle" /\ cutFiles = << >>
    /\ Len(calls) >= 6
    /\ calls[1].op = "cut" /\ FilesOf(calls[1].to) = <<"F", "H">>
    /\ calls[2].op = "paste"
    /\ calls[3].op = "move" /\ calls[3].file = "F"
    /\ calls[4].op = "cut" /\ calls[4].to = <<"G">>
    /\ calls[5].op = "move" /\ calls[5].file = "H"
    /\ calls[6].op = "notice"
    /\ where["G"] = FilesAtLoad["G"]

\* C27: the held set is emptied by nothing but the completion of a paste,
\* so while a paste is running the menu still offers Paste; a paste invoked
\* then starts at the first of the files that are held, which are the files
\* the running paste goes through, and every file it comes to is passed to
\* the move primitive again.
C27_SecondPasteIteratesSameFiles ==
    /\ [][(cutFiles # << >> /\ cutFiles' = << >>) =>
            \/ paste.pc # "idle" /\ paste'.pc = "idle"
            \/ again.pc # "idle" /\ again'.pc = "idle"]_vars
    /\ [][(again.pc = "idle" /\ again'.pc # "idle") =>
            /\ paste.pc # "idle"
            /\ again'.list = paste.list
            /\ again'.list = cutFiles
            /\ again'.i = 1]_vars
    /\ [][(MoveAsked /\ again'.i = again.i + 1) =>
            AskedMove.file = again.list[again.i]]_vars

\* F alone was held: the first paste moved it to folder 'd', a second paste
\* invoked before the first had completed moved it on to the root
C27_Witness ==
    /\ paste.pc = "idle" /\ again.pc = "idle"
    /\ \A k \in 1..Len(calls) : calls[k].op # "cut"
    /\ \E j, k \in 1..Len(calls) :
         /\ j < k
         /\ calls[j] = Call("move", "F", <<"d", "/", "m", " ", "f", " ", "1", ".", "p", "n", "g">>, 1, TRUE)
         /\ calls[k] = Call("move", "F", <<"m", " ", "f", " ", "1", ".", "p", "n", "g">>, 1, TRUE)
    /\ where["F"] = <<"m", " ", "f", " ", "1", ".", "p", "n", "g">>

====
